---------------------------- MODULE Spec2Model ----------------------------
(* A model of src/src/train_utils.py: the data splitter                    *)
(* (retrieve_data_w_features), the search-space builder                    *)
(* (build_search_space), the objective (optimize_hyperparams_hgb) and the  *)
(* optimization driver (run_bayesian_optimization).                        *)
(*                                                                         *)
(* Three specifications share the variables:                               *)
(*   SpecSplit   one call of retrieve_data_w_features on a bounded table   *)
(*   SpecSearch  a run up to the return of build_search_space on its first *)
(*               trial, the sampler free to propose any value              *)
(*   Spec        one call of run_bayesian_optimization: the enqueue loop,  *)
(*               then the 50 trials of study.optimize, then best_params    *)
EXTENDS Integers, Sequences, FiniteSets, TLC

VARIABLES
    \* ---- retrieve_data_w_features ----
    df,                  \* the DataFrame: [columns |-> set, rows |-> seq of [idx, cells]]
    features_to_drop,    \* list[str]
    split,               \* the split name
    split_ret,           \* NoCall, or what the call produced
    \* ---- build_search_space / optimize_hyperparams_hgb / run_bayesian_optimization ----
    search_params,       \* the search space: the dict's items, in insertion order
    default_params_list, \* None, or a list of dicts
    sampler,             \* what the sampler proposes: Free, or a cyclic script of picks
    losses,              \* the validation loss the objective finds, by trial number (cyclic)
    trials,              \* study.trials: seq of [state, fixed_params, params, value]
    cur,                 \* the running trial's position in trials (0: none)
    hyperparams,         \* build_search_space's local dict
    pos,                 \* build_search_space's loop position in search_params
    enq,                 \* the enqueue loop's position in default_params_list
    n_asked,             \* trials study.optimize has started
    pc,                  \* where the call is
    error,               \* the exception that left the call (NoError: none)
    result               \* what run_bayesian_optimization returned (NoResult: nothing yet)

vars == <<df, features_to_drop, split, split_ret, search_params, default_params_list,
          sampler, losses, trials, cur, hyperparams, pos, enq, n_asked, pc, error, result>>

splitVars == <<df, features_to_drop, split, split_ret>>
runVars == <<search_params, default_params_list, sampler, losses, trials, cur,
             hyperparams, pos, enq, n_asked, pc, error, result>>

-----------------------------------------------------------------------------
(* Bounds of the model *)

\* rows of the DataFrame
MaxRows == 2
\* entries of features_to_drop
MaxDrop == 2

-----------------------------------------------------------------------------
(* Small helpers *)

Range(s) == {s[i] : i \in 1..Len(s)}

\* the rows of s whose cell in column col is 1, in the order of s
RECURSIVE SelectRows(_, _)
SelectRows(s, col) ==
    IF s = <<>> THEN <<>>
    ELSE IF Head(s).cells[col] = 1
         THEN <<Head(s)>> \o SelectRows(Tail(s), col)
         ELSE SelectRows(Tail(s), col)

RECURSIVE SelectMissing(_, _)
SelectMissing(labels, columns) ==
    IF labels = <<>> THEN <<>>
    ELSE IF Head(labels) \in columns
         THEN SelectMissing(Tail(labels), columns)
         ELSE <<Head(labels)>> \o SelectMissing(Tail(labels), columns)

\* sequences over S of length at most n
SeqUpTo(S, n) == UNION {[1..k -> S] : k \in 0..n}

-----------------------------------------------------------------------------
(* retrieve_data_w_features *)

TargetColumn == "PremTot"

\* the column names a bounded table may hold, and the names a caller may ask for
AllColumns == {"PremTot", "train_set", "f1"}
SplitNames == {"train_set", "val_set"}
DropNames == AllColumns \cup {"ghost"}

NoCall == [kind |-> "none"]

\* df[df[split] == 1].copy(deep=True): the rows whose indicator is 1, in the
\* table's order, each with its index label
Filter(d, s) == [columns |-> d.columns, rows |-> SelectRows(d.rows, s)]

\* DataFrame.drop(columns=labels, errors="raise"), all labels present
DropColumns(d, labels) ==
    LET keep == d.columns \ Range(labels) IN
    [columns |-> keep,
     rows |-> [i \in 1..Len(d.rows) |->
                 [idx |-> d.rows[i].idx,
                  cells |-> [c \in keep |-> d.rows[i].cells[c]]]]]

\* df_filtered["PremTot"]: the Series of the target, with the index labels
Column(d, c) ==
    [i \in 1..Len(d.rows) |-> [idx |-> d.rows[i].idx, value |-> d.rows[i].cells[c]]]

KeyError(labels) == [kind |-> "error", error |-> "KeyError", missing |-> labels]

\* a faulty variant: errors="ignore", as the comment above the call says
DropOrRaiseIgnoring(d, labels) ==
    [kind |-> "frame", frame |-> DropColumns(d, labels)]

\* errors="raise": a label absent from the columns is a KeyError naming the absent labels
DropOrRaise(d, labels) ==
    LET missing == SelectMissing(labels, d.columns) IN
    IF missing # <<>> THEN KeyError(missing)
    ELSE [kind |-> "frame", frame |-> DropColumns(d, labels)]

\* a faulty variant: the target is left in X
DropLabelsNoTarget(F) == F

\* the labels handed to drop: features_to_drop + ["PremTot"]
DropLabels(F) == F \o <<TargetColumn>>

\* a faulty variant: no row is filtered out
RowFilterAll(d, s) == d

\* the row filter of the call
RowFilter(d, s) == Filter(d, s)

retrieve_data_w_features(d, F, s) ==
    IF s \notin d.columns THEN KeyError(<<s>>)
    ELSE LET df_filtered == RowFilter(d, s)
             dropped == DropOrRaise(df_filtered, DropLabels(F))
         IN IF dropped.kind = "error" THEN dropped
            ELSE IF TargetColumn \notin df_filtered.columns
                 THEN KeyError(<<TargetColumn>>)
                 ELSE [kind |-> "return",
                       X |-> dropped.frame,
                       y |-> Column(df_filtered, TargetColumn)]

\* the bounded tables: any subset of the columns, up to MaxRows rows of 0/1
\* cells, the default RangeIndex
Frames ==
    UNION {
      UNION {
        {[columns |-> cols,
          rows |-> [i \in 1..n |-> [idx |-> i - 1, cells |-> cs[i]]]] :
            cs \in [1..n -> [cols -> 0..1]]} :
        n \in 0..MaxRows} :
      cols \in SUBSET AllColumns}

Retrieve ==
    /\ split_ret = NoCall
    /\ split_ret' = retrieve_data_w_features(df, features_to_drop, split)
    /\ UNCHANGED <<df, features_to_drop, split>>
    /\ UNCHANGED runVars

-----------------------------------------------------------------------------
(* The search space, the trial and the sampler *)

\* entries of a search space in SpecSearch
MaxParams == 2
\* enqueued defaults of a short default_params_list
MaxDefaults == 2
\* how far a long default_params_list exceeds the trial budget
MaxOver == 1
\* period of the scripted losses
LossPeriod == 2

\* n_trials of study.optimize
N_TRIALS == 50

NoError == [kind |-> "none"]
NoResult == [kind |-> "none"]
EmptyDict == <<>>

\* the kinds for which trial.suggest_<kind>(name, min, max) is a method of the trial
SuggestMethods == {"int", "float", "uniform", "loguniform"}

Categorical(choices) == [sampling_type |-> "categorical", choices |-> choices]
Numeric(kind, lo, hi) == [sampling_type |-> kind, min |-> lo, max |-> hi]
Item(name, d) == [name |-> name, params |-> d]

\* dict[key] = value
Put(dict, key, value) ==
    [k \in DOMAIN dict \cup {key} |-> IF k = key THEN value ELSE dict[k]]

Value(v) == [kind |-> "value", value |-> v]
Raise(e) == [kind |-> "error", error |-> e]

\* what the sampler may propose for a categorical distribution at trial `number`
SampleCategorical(choices, number) ==
    IF sampler.free THEN Range(choices)
    ELSE LET p == sampler.picks[(number % Len(sampler.picks)) + 1]
         IN {choices[(p % Len(choices)) + 1]}

\* what the sampler may propose for a numeric distribution [lo, hi]
SampleNumeric(lo, hi, number) ==
    IF sampler.free THEN lo..hi
    ELSE LET p == sampler.picks[(number % Len(sampler.picks)) + 1]
         IN {lo + (p % (hi - lo + 1))}

\* Trial.suggest_categorical(name, choices): an enqueued value that is one of the
\* choices is used, one that is not is a ValueError; without one the sampler draws
SuggestCategorical(t, number, name, choices) ==
    IF choices = <<>> THEN {Raise("ValueError")}
    ELSE IF name \in DOMAIN t.fixed_params
    THEN IF t.fixed_params[name] \in Range(choices)
         THEN {Value(t.fixed_params[name])}
         ELSE {Raise("ValueError")}
    ELSE {Value(v) : v \in SampleCategorical(choices, number)}

\* Trial.suggest_int / suggest_float(name, low, high): low > high is a ValueError;
\* an enqueued value is used as it is (out of range: a warning only); without one
\* the sampler draws in [low, high]
\* a faulty variant: the sampler draws one past the upper bound
SuggestNumericBeyond(t, number, name, lo, hi) ==
    IF lo > hi THEN {Raise("ValueError")}
    ELSE IF name \in DOMAIN t.fixed_params
    THEN {Value(t.fixed_params[name])}
    ELSE {Value(v) : v \in SampleNumeric(lo, hi + 1, number)}

SuggestNumeric(t, number, name, lo, hi) ==
    IF lo > hi THEN {Raise("ValueError")}
    ELSE IF name \in DOMAIN t.fixed_params
    THEN {Value(t.fixed_params[name])}
    ELSE {Value(v) : v \in SampleNumeric(lo, hi, number)}

\* one iteration of build_search_space's loop: the f-string reads the
\* descriptor's fields (a missing one is a KeyError), eval looks the method
\* trial.suggest_<sampling_type> up (AttributeError when there is none) and calls it
\* a faulty variant: any kind that is not categorical is sampled as a number
SuggestOutcomesLenient(item, t, number) ==
    LET d == item.params IN
    IF d.sampling_type = "categorical"
    THEN IF "choices" \notin DOMAIN d THEN {Raise("KeyError")}
         ELSE SuggestCategorical(t, number, item.name, d.choices)
    ELSE IF ~({"min", "max"} \subseteq DOMAIN d) THEN {Raise("KeyError")}
         ELSE SuggestNumeric(t, number, item.name, d.min, d.max)

SuggestOutcomes(item, t, number) ==
    LET d == item.params IN
    IF d.sampling_type = "categorical"
    THEN IF "choices" \notin DOMAIN d THEN {Raise("KeyError")}
         ELSE SuggestCategorical(t, number, item.name, d.choices)
    ELSE IF ~({"min", "max"} \subseteq DOMAIN d) THEN {Raise("KeyError")}
         ELSE IF d.sampling_type \notin SuggestMethods THEN {Raise("AttributeError")}
         ELSE SuggestNumeric(t, number, item.name, d.min, d.max)

-----------------------------------------------------------------------------
(* The study *)

\* a trial of the study; value 0: no value yet
NewTrial(fixed) ==
    [state |-> "RUNNING", fixed_params |-> fixed, params |-> EmptyDict, value |-> 0]
WaitingTrial(fixed) ==
    [state |-> "WAITING", fixed_params |-> fixed, params |-> EmptyDict, value |-> 0]

\* a faulty variant: the new trial goes before those of the study
EnqueueFront(ts, d) == <<WaitingTrial(d)>> \o ts

\* study.enqueue_trial(params): a waiting trial, numbered after those of the study
Enqueue(ts, d) == Append(ts, WaitingTrial(d))

Waiting(ts) == {i \in 1..Len(ts) : ts[i].state = "WAITING"}
Complete(ts) == {i \in 1..Len(ts) : ts[i].state = "COMPLETE"}

Min(S) == CHOOSE x \in S : \A y \in S : x <= y
Max(S) == CHOOSE x \in S : \A y \in S : x >= y

\* a faulty variant: the waiting trial of the highest number
PopWaitingLast(ts) == Max(Waiting(ts))

\* study.optimize takes the waiting trial of the lowest number
PopWaiting(ts) == Min(Waiting(ts))

\* a faulty variant: one trial too many
BudgetExhaustedLate(n) == n >= N_TRIALS + 1

\* study.optimize(n_trials=50): the loop ends once 50 trials have been started
BudgetExhausted(n) == n >= N_TRIALS

\* a faulty variant: direction="maximize"
BestTrialMaximize(ts) ==
    Min({i \in Complete(ts) : \A j \in Complete(ts) : ts[i].value >= ts[j].value})

\* study.best_trial, direction="minimize": the first complete trial of the lowest value
BestTrial(ts) ==
    Min({i \in Complete(ts) : \A j \in Complete(ts) : ts[i].value <= ts[j].value})

\* study.best_params
BestParams(ts) ==
    IF Complete(ts) = {} THEN Raise("ValueError")
    ELSE [kind |-> "params", params |-> ts[BestTrial(ts)].params]

\* the validation loss the objective finds at trial `number`
LossAt(number) == losses[(number % Len(losses)) + 1]

-----------------------------------------------------------------------------
(* The inputs *)

ParamNames == {"loss", "max_iter", "learning_rate"}

\* the descriptors a configuration may give each hyperparameter: a well-formed
\* one, and ones with a misspelt kind or crossed bounds
DescOptions(name) ==
    IF name = "loss"
    THEN {Categorical(<<"a", "b">>),
          [sampling_type |-> "categorial", choices |-> <<"a", "b">>]}
    ELSE IF name = "max_iter"
    THEN {Numeric("int", 1, 2), Numeric("int", 2, 1), Numeric("bogus", 1, 2)}
    ELSE {Numeric("float", 1, 2), Numeric("bogus", 1, 2)}

\* the values an enqueued default may give each hyperparameter: in the
\* distribution, and outside it
FixedOptions(name) ==
    IF name = "loss" THEN {"b", "z"}
    ELSE IF name = "max_iter" THEN {1, 3}
    ELSE {2}

Injective(s) == \A i, j \in 1..Len(s) : i # j => s[i] # s[j]

\* a descriptor for every name
Configs ==
    {[loss |-> a, max_iter |-> b, learning_rate |-> c] :
        a \in DescOptions("loss"), b \in DescOptions("max_iter"),
        c \in DescOptions("learning_rate")}

\* search spaces of up to n entries: a dict's keys are distinct
SearchSpaces(n) ==
    UNION {
      {[i \in 1..Len(names) |-> Item(names[i], c[names[i]])] : c \in Configs} :
      names \in {s \in SeqUpTo(ParamNames, n) : Injective(s)}}

\* dicts of enqueued values over some of the names
FixedDicts ==
    UNION {
      {[k \in ks |-> full[k]] : ks \in SUBSET ParamNames} :
      full \in {[loss |-> a, max_iter |-> b, learning_rate |-> c] :
                  a \in FixedOptions("loss"), b \in FixedOptions("max_iter"),
                  c \in FixedOptions("learning_rate")}}

\* the search spaces of a run: one and two well-formed entries, and a
\* well-formed entry followed by one of an unrecognized kind
RunSpaces ==
    {<<Item("max_iter", Numeric("int", 1, 2))>>,
     <<Item("loss", Categorical(<<"a", "b">>)), Item("max_iter", Numeric("int", 1, 2))>>,
     <<Item("max_iter", Numeric("int", 1, 2)), Item("learning_rate", Numeric("bogus", 1, 2))>>}

\* the default configurations of a run: complete and in range; partial and out
\* of range; with a value that is none of the categorical choices
DefaultChoices ==
    {[loss |-> "b", max_iter |-> 1],
     [max_iter |-> 3],
     [loss |-> "z", max_iter |-> 2]}

LongPattern == <<[loss |-> "b", max_iter |-> 1], [max_iter |-> 3]>>

\* default_params_list: None, a short list, or a list longer than the trial budget
DefaultLists ==
    {[is_none |-> TRUE, items |-> <<>>]}
    \cup {[is_none |-> FALSE, items |-> l] : l \in SeqUpTo(DefaultChoices, MaxDefaults)}
    \cup {[is_none |-> FALSE,
           items |-> [i \in 1..(N_TRIALS + k) |-> LongPattern[((i - 1) % Len(LongPattern)) + 1]]] :
             k \in 1..MaxOver}

\* the scripted samplers of a run: what the seeded sampler proposes, by trial
SamplerScripts == {<<0>>, <<1>>, <<0, 1>>, <<1, 0>>}
LossValues == {1, 2}

-----------------------------------------------------------------------------
(* run_bayesian_optimization *)

SplitIdle ==
    /\ df = [columns |-> {}, rows |-> <<>>]
    /\ features_to_drop = <<>>
    /\ split = "train_set"
    /\ split_ret = NoCall

Init ==
    /\ SplitIdle
    /\ search_params \in RunSpaces
    /\ default_params_list \in DefaultLists
    /\ sampler \in {[free |-> FALSE, picks |-> p] : p \in SamplerScripts}
    /\ losses \in [1..LossPeriod -> LossValues]
    /\ trials = <<>>
    /\ cur = 0
    /\ hyperparams = EmptyDict
    /\ pos = 1
    /\ enq = 1
    /\ n_asked = 0
    /\ pc = "enqueue"
    /\ error = NoError
    /\ result = NoResult

\* a faulty variant: the failure is recorded and the study goes on
TrialRaisesSuppressed(e, stage) ==
    /\ trials' = [trials EXCEPT ![cur].state = "FAIL"]
    /\ pc' = "ask"
    /\ error' = error

\* the exception leaves the objective: the trial is FAIL, study.optimize (catch=())
\* raises it again, and nothing in run_bayesian_optimization catches it
TrialRaises(e, stage) ==
    /\ trials' = [trials EXCEPT ![cur].state = "FAIL"]
    /\ pc' = "raised"
    /\ error' = [kind |-> "error", error |-> e, stage |-> stage, number |-> cur - 1]

\* for default_params in default_params_list: study.enqueue_trial(default_params)
EnqueueTrial ==
    /\ UNCHANGED splitVars
    /\ pc = "enqueue"
    /\ ~default_params_list.is_none
    /\ enq <= Len(default_params_list.items)
    /\ trials' = Enqueue(trials, default_params_list.items[enq])
    /\ enq' = enq + 1
    /\ UNCHANGED <<search_params, default_params_list, sampler, losses, cur,
                   hyperparams, pos, n_asked, pc, error, result>>

\* study.optimize(objective, n_trials=50, n_jobs=1) is entered
Optimize ==
    /\ UNCHANGED splitVars
    /\ pc = "enqueue"
    /\ default_params_list.is_none \/ enq > Len(default_params_list.items)
    /\ pc' = "ask"
    /\ UNCHANGED <<search_params, default_params_list, sampler, losses, trials, cur,
                   hyperparams, pos, enq, n_asked, error, result>>

\* the loop of study.optimize starts the next trial: study.ask() takes the first
\* waiting trial, or creates one; the objective is entered
Ask ==
    /\ UNCHANGED splitVars
    /\ pc = "ask"
    /\ ~BudgetExhausted(n_asked)
    /\ n_asked' = n_asked + 1
    /\ IF Waiting(trials) # {}
       THEN /\ cur' = PopWaiting(trials)
            /\ trials' = [trials EXCEPT ![PopWaiting(trials)].state = "RUNNING"]
       ELSE /\ cur' = Len(trials) + 1
            /\ trials' = Append(trials, NewTrial(EmptyDict))
    /\ hyperparams' = EmptyDict
    /\ pos' = 1
    /\ pc' = "suggest"
    /\ UNCHANGED <<search_params, default_params_list, sampler, losses, enq, error, result>>

\* build_search_space: one iteration of the loop over hyperparams_search_space.items()
Suggest ==
    /\ UNCHANGED splitVars
    /\ pc = "suggest"
    /\ pos <= Len(search_params)
    /\ \E o \in SuggestOutcomes(search_params[pos], trials[cur], cur - 1) :
         \/ /\ o.kind = "value"
            /\ trials' = [trials EXCEPT ![cur].params = Put(@, search_params[pos].name, o.value)]
            /\ hyperparams' = Put(hyperparams, search_params[pos].name, o.value)
            /\ pos' = pos + 1
            /\ UNCHANGED <<pc, error>>
         \/ /\ o.kind = "error"
            /\ TrialRaises(o.error, "sample")
            /\ UNCHANGED <<hyperparams, pos>>
    /\ UNCHANGED <<search_params, default_params_list, sampler, losses, cur, enq,
                   n_asked, result>>

\* build_search_space: return hyperparams
BuildReturn ==
    /\ UNCHANGED splitVars
    /\ pc = "suggest"
    /\ pos > Len(search_params)
    /\ pc' = "fit"
    /\ UNCHANGED <<search_params, default_params_list, sampler, losses, trials, cur,
                   hyperparams, pos, enq, n_asked, error, result>>

\* HistGradientBoostingRegressor(**hyperparams).fit(...): it returns, or raises
Fit ==
    /\ UNCHANGED splitVars
    /\ pc = "fit"
    /\ \/ /\ pc' = "predict"
          /\ UNCHANGED <<trials, error>>
       \/ TrialRaises("FitError", "fit")
    /\ UNCHANGED <<search_params, default_params_list, sampler, losses, cur,
                   hyperparams, pos, enq, n_asked, result>>

\* model.predict(df_val): it returns, or raises
Predict ==
    /\ UNCHANGED splitVars
    /\ pc = "predict"
    /\ \/ /\ pc' = "score"
          /\ UNCHANGED <<trials, error>>
       \/ TrialRaises("PredictError", "predict")
    /\ UNCHANGED <<search_params, default_params_list, sampler, losses, cur,
                   hyperparams, pos, enq, n_asked, result>>

\* root_mean_squared_error(y_val, val_predictions): it raises, or its value is
\* returned and the study records the trial COMPLETE with it
Score ==
    /\ UNCHANGED splitVars
    /\ pc = "score"
    /\ \/ /\ trials' = [trials EXCEPT ![cur].state = "COMPLETE",
                                       ![cur].value = LossAt(cur - 1)]
          /\ cur' = 0
          /\ pc' = "ask"
          /\ UNCHANGED error
       \/ TrialRaises("ScoreError", "score") /\ UNCHANGED cur
    /\ UNCHANGED <<search_params, default_params_list, sampler, losses, hyperparams,
                   pos, enq, n_asked, result>>

\* the loop of study.optimize ends; return study.best_params
Return ==
    /\ UNCHANGED splitVars
    /\ pc = "ask"
    /\ BudgetExhausted(n_asked)
    /\ LET b == BestParams(trials) IN
         IF b.kind = "error"
         THEN /\ pc' = "raised"
              /\ error' = [kind |-> "error", error |-> b.error, stage |-> "best_params",
                           number |-> n_asked]
              /\ UNCHANGED result
         ELSE /\ pc' = "returned"
              /\ result' = b
              /\ UNCHANGED error
    /\ UNCHANGED <<search_params, default_params_list, sampler, losses, trials, cur,
                   hyperparams, pos, enq, n_asked>>

Next ==
    \/ EnqueueTrial
    \/ Optimize
    \/ Ask
    \/ Suggest
    \/ BuildReturn
    \/ Fit
    \/ Predict
    \/ Score
    \/ Return

Spec == Init /\ [][Next]_vars

-----------------------------------------------------------------------------
(* build_search_space on the first trial of a run: the run up to the return of  *)
(* the objective's call, over every bounded search space, with at most one      *)
(* enqueued default; the sampler proposes any value of the distribution         *)

InitSearch ==
    /\ SplitIdle
    /\ search_params \in SearchSpaces(MaxParams)
    /\ default_params_list \in
         {[is_none |-> TRUE, items |-> <<>>]}
         \cup {[is_none |-> FALSE, items |-> <<d>>] : d \in FixedDicts}
    /\ sampler = [free |-> TRUE, picks |-> <<>>]
    /\ losses = <<1>>
    /\ trials = <<>>
    /\ cur = 0
    /\ hyperparams = EmptyDict
    /\ pos = 1
    /\ enq = 1
    /\ n_asked = 0
    /\ pc = "enqueue"
    /\ error = NoError
    /\ result = NoResult

NextSearch ==
    \/ EnqueueTrial
    \/ Optimize
    \/ (Ask /\ n_asked = 0)
    \/ Suggest
    \/ BuildReturn

SpecSearch == InitSearch /\ [][NextSearch]_vars

-----------------------------------------------------------------------------
(* retrieve_data_w_features alone *)

RunIdle ==
    /\ search_params = <<>>
    /\ default_params_list = [is_none |-> TRUE, items |-> <<>>]
    /\ sampler = [free |-> TRUE, picks |-> <<>>]
    /\ losses = <<1>>
    /\ trials = <<>>
    /\ cur = 0
    /\ hyperparams = EmptyDict
    /\ pos = 1
    /\ enq = 1
    /\ n_asked = 0
    /\ pc = "idle"
    /\ error = NoError
    /\ result = NoResult

InitSplit ==
    /\ df \in Frames
    /\ features_to_drop \in SeqUpTo(DropNames, MaxDrop)
    /\ split \in SplitNames
    /\ split_ret = NoCall
    /\ RunIdle

NextSplit == Retrieve

SpecSplit == InitSplit /\ [][NextSplit]_vars

-----------------------------------------------------------------------------
(* Properties of retrieve_data_w_features, under SpecSplit *)

Called == split_ret.kind # "none"
Returned == split_ret.kind = "return"
Selected == {i \in 1..Len(df.rows) : df.rows[i].cells[split] = 1}

\* C1: with nothing to drop, on a table that holds the target and the split
\* indicator, the call returns X and y of as many rows as the table has rows
\* whose indicator is 1; row k of X and element k of y carry the same index
\* label, that of a selected row of the table, with that row's values, and the
\* labels ascend as in the table.
C1_SplitRowsInOrder ==
    (Called /\ features_to_drop = <<>> /\ TargetColumn \in df.columns
       /\ split \in df.columns)
    => /\ Returned
       /\ Len(split_ret.X.rows) = Cardinality(Selected)
       /\ Len(split_ret.y) = Cardinality(Selected)
       /\ \A k \in 1..Len(split_ret.X.rows) :
            LET x == split_ret.X.rows[k]
                src == df.rows[x.idx + 1]
            IN /\ split_ret.y[k].idx = x.idx
               /\ (x.idx + 1) \in Selected
               /\ src.idx = x.idx
               /\ split_ret.y[k].value = src.cells[TargetColumn]
               /\ \A c \in DOMAIN x.cells : x.cells[c] = src.cells[c]
               /\ (k > 1 => split_ret.X.rows[k - 1].idx < x.idx)

C1_Witness ==
    /\ Returned
    /\ features_to_drop = <<>>
    /\ Len(df.rows) = 2
    /\ Len(split_ret.X.rows) = 1
    /\ split_ret.X.rows[1].idx = 1

\* C2: when the call returns, the columns of X are those of the table without
\* the target and without the names of features_to_drop, and every row of X has
\* exactly those columns.
C2_DroppedColumns ==
    Returned
    => /\ split_ret.X.columns = df.columns \ (Range(features_to_drop) \cup {TargetColumn})
       /\ TargetColumn \notin split_ret.X.columns
       /\ \A k \in 1..Len(split_ret.X.rows) :
            DOMAIN split_ret.X.rows[k].cells = split_ret.X.columns

C2_Witness ==
    /\ Returned
    /\ features_to_drop = <<"PremTot", "train_set">>
    /\ df.columns = AllColumns
    /\ split_ret.X.columns = {"f1"}
    /\ Len(split_ret.X.rows) >= 1

\* C3: when a name of features_to_drop, or the target, is no column of the
\* table, the call ends in a KeyError (the spec's ColumnNotFoundError) and
\* returns nothing; the error names only absent columns and, when the split
\* indicator itself is a column, exactly the absent ones among the names to drop
\* and the target.
C3_MissingColumnRaises ==
    (Called /\ ~((Range(features_to_drop) \cup {TargetColumn}) \subseteq df.columns))
    => /\ split_ret.kind = "error"
       /\ split_ret.error = "KeyError"
       /\ split_ret.missing # <<>>
       /\ Range(split_ret.missing) \cap df.columns = {}
       /\ split \in df.columns =>
            Range(split_ret.missing)
              = (Range(features_to_drop) \cup {TargetColumn}) \ df.columns

C3_Witness ==
    /\ split_ret.kind = "error"
    /\ split \in df.columns
    /\ TargetColumn \in df.columns
    /\ Len(df.rows) >= 1
    /\ split_ret.missing = <<"ghost">>

-----------------------------------------------------------------------------
(* Properties of build_search_space, under SpecSearch *)

Recognized(d) == d.sampling_type = "categorical" \/ d.sampling_type \in SuggestMethods
NamesBefore(k) == {search_params[i].name : i \in 1..(k - 1)}
Sampled == IF cur = 0 THEN {} ELSE DOMAIN trials[cur].params

\* C4 as claimed: when build_search_space fails on an entry of an unrecognized
\* kind, no suggest call has been made on the trial.
C4_NoSuggestBeforeError ==
    (pc = "raised" /\ error.stage = "sample" /\ ~Recognized(search_params[pos].params))
    => Sampled = {}

\* C4 as amended: with an entry of an unrecognized kind at position k,
\* build_search_space never returns and never makes a suggest call for that
\* entry or a later one; when it fails at k, with an AttributeError (or a
\* KeyError for the bounds it reads first), exactly the entries before k have
\* been sampled.
C4_RaisesAtOffendingEntry ==
    \A k \in 1..Len(search_params) :
      ~Recognized(search_params[k].params)
      => /\ pc # "fit"
         /\ pos <= k
         /\ \A i \in k..Len(search_params) : search_params[i].name \notin Sampled
         /\ (pc = "raised" /\ pos = k)
              => /\ error.error \in {"AttributeError", "KeyError"}
                 /\ error.stage = "sample"
                 /\ Sampled = NamesBefore(k)

C4_Witness ==
    /\ pc = "raised"
    /\ pos = 2
    /\ search_params[2].params.sampling_type = "bogus"
    /\ error.error = "AttributeError"
    /\ Sampled = {search_params[1].name}

InRange(d, v) ==
    IF d.sampling_type = "categorical" THEN v \in Range(d.choices)
    ELSE v \in d.min..d.max

\* C9 as claimed: what build_search_space returns has exactly the names of the
\* search space as keys, a categorical value among the choices and a numeric
\* value in [min, max].
C9_ValuesInDistribution ==
    pc = "fit"
    => /\ DOMAIN hyperparams = {search_params[i].name : i \in 1..Len(search_params)}
       /\ \A i \in 1..Len(search_params) :
            InRange(search_params[i].params, hyperparams[search_params[i].name])

\* C9 as amended: the keys are exactly the names of the search space; a
\* categorical value is among the choices; a numeric value is in [min, max]
\* unless the trial carries an enqueued value for that name, which is returned
\* as it was enqueued.
C9_ValuesInDistributionOrEnqueued ==
    pc = "fit"
    => /\ DOMAIN hyperparams = {search_params[i].name : i \in 1..Len(search_params)}
       /\ hyperparams = trials[cur].params
       /\ \A i \in 1..Len(search_params) :
            LET d == search_params[i].params
                name == search_params[i].name
                fixed == trials[cur].fixed_params
            IN /\ d.sampling_type = "categorical" => InRange(d, hyperparams[name])
               /\ name \in DOMAIN fixed => hyperparams[name] = fixed[name]
               /\ name \notin DOMAIN fixed => InRange(d, hyperparams[name])

C9_Witness ==
    /\ pc = "fit"
    /\ Len(search_params) = 2
    /\ DOMAIN trials[cur].fixed_params = {"loss"}
    /\ hyperparams = [loss |-> "b", max_iter |-> 2]

-----------------------------------------------------------------------------
(* Properties of run_bayesian_optimization, under Spec *)

Defaults == default_params_list.items
Started(ts) == {i \in 1..Len(ts) : ts[i].state # "WAITING"}
Agrees(t, d) == \A k \in DOMAIN t.params \cap DOMAIN d : t.params[k] = d[k]
MinOf(a, b) == IF a <= b THEN a ELSE b
SpaceNames == {search_params[i].name : i \in 1..Len(search_params)}

\* C5: the trials are started in the order of their numbers and trial i-1
\* carries the i-th default: a started trial within the length of the list
\* evaluates that default's values, and a trial proposed by the sampler is
\* started only when every default before it has been.
C5_DefaultsFirstInOrder ==
    /\ \A i \in 2..Len(trials) :
         trials[i].state # "WAITING" => trials[i - 1].state # "WAITING"
    /\ cur # 0 => cur = n_asked
    /\ \A i \in 1..Len(trials) :
         IF i <= Len(Defaults)
         THEN trials[i].fixed_params = Defaults[i] /\ Agrees(trials[i], Defaults[i])
         ELSE trials[i].fixed_params = EmptyDict /\ trials[i].state # "WAITING"

C5_Witness ==
    /\ Len(Defaults) = 2
    /\ Defaults[1] = [max_iter |-> 3]
    /\ Defaults[2] = [loss |-> "b", max_iter |-> 1]
    /\ Len(search_params) = 2
    /\ Len(trials) = 3
    /\ trials[1].params.max_iter = 3
    /\ trials[2].params = Defaults[2]
    /\ trials[3].state = "COMPLETE"

\* C6 as claimed: when the run returns, every default of the list has been evaluated.
C6_AllDefaultsEvaluated ==
    pc = "returned"
    => \A i \in 1..Len(Defaults) :
         trials[i].state = "COMPLETE" /\ trials[i].fixed_params = Defaults[i]

\* C6 as amended: when the run returns, each of the first 50 defaults of the
\* list has been evaluated, with its values; a default after the 50th is
\* still waiting.
C6_FirstFiftyDefaultsEvaluated ==
    pc = "returned"
    => /\ \A i \in 1..MinOf(Len(Defaults), N_TRIALS) :
            /\ trials[i].state = "COMPLETE"
            /\ trials[i].fixed_params = Defaults[i]
            /\ Agrees(trials[i], Defaults[i])
            /\ DOMAIN trials[i].params = SpaceNames
       /\ \A i \in (N_TRIALS + 1)..Len(Defaults) : trials[i].state = "WAITING"

C6_Witness ==
    /\ pc = "returned"
    /\ Len(Defaults) = N_TRIALS + 1
    /\ trials[N_TRIALS].state = "COMPLETE"
    /\ trials[N_TRIALS + 1].state = "WAITING"

\* C7: what the run returns is the assignment of a complete trial whose loss is
\* at most the loss of every evaluated trial.
C7_ReturnsLowestLoss ==
    pc = "returned"
    => /\ result.kind = "params"
       /\ \E i \in Complete(trials) :
            /\ result.params = trials[i].params
            /\ \A j \in 1..Len(trials) :
                 trials[j].state # "WAITING"
                 => trials[j].state = "COMPLETE" /\ trials[i].value <= trials[j].value

C7_Witness ==
    /\ pc = "returned"
    /\ Defaults = <<[max_iter |-> 3]>>
    /\ trials[1].value = 2
    /\ trials[N_TRIALS].value = 1
    /\ result.params # trials[1].params
    /\ \E i \in Complete(trials) : trials[i].value = 1 /\ result.params = trials[i].params

\* C8: one trial runs at a time, after every trial started before it has been
\* scored; the run starts at most 50 trials and returns only when it has
\* evaluated exactly 50, the enqueued defaults among them.
C8_FiftyTrialsSequential ==
    /\ n_asked <= N_TRIALS
    /\ Cardinality(Started(trials)) = n_asked
    /\ Cardinality({i \in 1..Len(trials) : trials[i].state = "RUNNING"}) <= 1
    /\ \A i \in Started(trials) :
         \/ trials[i].state = "COMPLETE" /\ DOMAIN trials[i].params = SpaceNames
         \/ i = cur /\ i = n_asked /\ pc \in {"suggest", "fit", "predict", "score", "raised"}
    /\ pc = "ask" => cur = 0
    /\ pc = "returned"
         => /\ n_asked = N_TRIALS
            /\ Cardinality(Complete(trials)) = N_TRIALS
            /\ Started(trials) = Complete(trials)

C8_Witness ==
    /\ pc = "returned"
    /\ Len(Defaults) = 2
    /\ Len(trials) = N_TRIALS
    /\ trials[1].fixed_params = [max_iter |-> 3]

\* C10: a trial that raises ends the run: the error is the run's outcome,
\* nothing is returned, the failed trial has no loss and is the last one
\* started, and every other started trial had been scored before it.
C10_ErrorEndsTheRun ==
    /\ \A i \in 1..Len(trials) :
         trials[i].state = "FAIL"
         => /\ pc = "raised"
            /\ error.kind = "error"
            /\ error.number = i - 1
            /\ result = NoResult
            /\ i = n_asked
            /\ trials[i].value = 0
            /\ \A j \in 1..Len(trials) :
                 \/ j = i
                 \/ j < i /\ trials[j].state = "COMPLETE"
                 \/ j > i /\ trials[j].state = "WAITING"
    /\ pc = "raised" => result = NoResult /\ trials[cur].state = "FAIL"
    /\ pc = "returned" => error = NoError

C10_Witness ==
    /\ pc = "raised"
    /\ error.stage = "predict"
    /\ error.number = 2
    /\ result = NoResult
    /\ Len(Defaults) = 2
    /\ Cardinality(Complete(trials)) = 2

=============================================================================
